---- MODULE Spec2Model ----
(***************************************************************************)
(* Gold layer of musica-market-intel (src/pipeline/process_gold.py):       *)
(* GoldProcessor loads the page-text table, extracts instrument (role)     *)
(* candidates and salary candidates from every page, saves the stagings    *)
(* and links every role to its best same-page salary.                      *)
(*                                                                         *)
(* A page text is a sequence of tokens joined by single spaces.  A token   *)
(* is a word, a monetary expression (given by the three groups of the      *)
(* salary regex) or a run of whitespace.  Character offsets, context       *)
(* windows, evidence texts and distances are computed from the tokens'     *)
(* lengths exactly as the code computes them from the string.              *)
(***************************************************************************)
EXTENDS Integers, Sequences, FiniteSets, TLC

VARIABLES
    inputs,         \* which input files / columns exist (load_data's checks)
    manifest_data,  \* doc_id -> source_name, after load_data's deduplication
    silver_data,    \* the page-text table: rows [doc_id, page_num, full_text]
    candidates,     \* self.candidates: role candidates (DataFrame rows, in order)
    salaries,       \* self.salaries: salary candidates (DataFrame rows, in order)
    opportunities,  \* self.opportunities: final rows
    files,          \* artifacts written under data/gold
    log,            \* the warning and critical records written to the logger
    exit_status,    \* <<>> while the process runs, then <<its exit status>>
    pc,             \* position of __main__
    manifest_parquet, \* data/raw/manifest.parquet: the rows of the manifest on disk
    raw_pdfs,         \* data/raw/files: the contents written there
    parsed_pages,     \* data/intermediate/parsed_pages.parquet: its rows
    manifest_df,      \* collect_raw.main: the manifest in memory
    seed,             \* collect_raw.main: index of the seed being processed
    attempt,          \* download_file: attempt
    backoff,          \* download_file: backoff
    requests,         \* download_file: session.get calls made by the current call
    downloaded,       \* what download_file returned to process_seed
    runs,             \* collection runs started so far
    silver_outcome,   \* how the last run of process_silver.main ended
    cpc               \* position of collect_raw.main ("idle" between runs)

gold_vars == <<inputs, manifest_data, silver_data, candidates, salaries, opportunities, files,
               log, exit_status, pc>>

ingest_vars == <<manifest_parquet, raw_pdfs, parsed_pages, manifest_df, seed, attempt, backoff,
                 requests, downloaded, runs, silver_outcome, cpc>>

vars == <<gold_vars, ingest_vars>>

----------------------------------------------------------------------------
(* Small helpers *)

Max2(a, b) == IF a >= b THEN a ELSE b

Min2(a, b) == IF a <= b THEN a ELSE b

SetMin(S) == CHOOSE x \in S : \A y \in S : x <= y

SetMax(S) == CHOOSE x \in S : \A y \in S : x >= y

Abs(x) == IF x < 0 THEN -x ELSE x

RECURSIVE Concat(_)
Concat(ss) == IF ss = <<>> THEN <<>> ELSE Head(ss) \o Concat(Tail(ss))

----------------------------------------------------------------------------
(* Program constants *)

min_val == 700

max_val == 45000

YearLo == 1900

YearHi == 2100

InstrumentRadius == 80

SalaryRadius == 120

ProximityWindow == 3000

ScoreSymbol == 2

ScorePositive == 3

ScoreNegative == 10

positive_keywords ==
    {"remuneracao", "salario", "mensal", "cache", "bolsa", "vencimento",
     "subsidio", "honorario", "premio", "pagamento"}

negative_keywords ==
    {"multa", "taxa", "inscricao", "boleto", "gru", "darf",
     "custo", "diaria", "ajuda de custo", "verba", "recurso"}

(* INSTRUMENT_TAXONOMY in dict order: <<canonical, pattern>>.  The module is *)
(* plain ASCII: an accented letter of the source is written as its base      *)
(* letter (the class [e-acute e] reads [ee], "Oboe-acute" reads "Oboe").     *)
INSTRUMENT_TAXONOMY ==
    << <<"Fagote", "fagote">>, <<"Fagote", "fagotista">>,
       <<"Flauta", "flauta">>, <<"Flauta", "flautista">>, <<"Flauta", "flautim">>,
       <<"Flauta", "piccolo">>,
       <<"Oboe", "obo[ee]">>, <<"Oboe", "obo[ii]sta">>, <<"Oboe", "corne\\s+ingl[ee]s">>,
       <<"Clarinete", "clarinete">>, <<"Clarinete", "clarinetista">>,
       <<"Clarinete", "clarineta">>, <<"Clarinete", "clarone">>,
       <<"Trompa", "trompa">>, <<"Trompa", "trompista">>,
       <<"Trompete", "trompete">>, <<"Trompete", "trompetista">>,
       <<"Trombone", "trombone">>, <<"Trombone", "trombonista">>,
       <<"Tuba", "tuba">>, <<"Tuba", "tubista">>, <<"Tuba", "euphonium">>,
       <<"Tuba", "bombardino">>,
       <<"Violino", "violino">>, <<"Violino", "violinista">>, <<"Violino", "spalla">>,
       <<"Violino", "concertino">>,
       <<"Viola", "\\bviola(?!\\w)">>, <<"Viola", "violista">>,
       <<"Violoncelo", "violoncelo">>, <<"Violoncelo", "violoncelista">>,
       <<"Violoncelo", "cello">>,
       <<"Contrabaixo", "contrabaixo">>, <<"Contrabaixo", "contrabaixista">>,
       <<"Contrabaixo", "baixo\\s+ac[uu]stico">>,
       <<"Piano", "piano">>, <<"Piano", "pianista">>, <<"Piano", "correpetidor">>,
       <<"Percussao", "percuss[aa]o">>, <<"Percussao", "percussionista">>,
       <<"Percussao", "t[ii]mpanos">>,
       <<"Harpa", "harpa">>, <<"Harpa", "harpista">>,
       <<"Canto", "cantor(?:a)?">>, <<"Canto", "corista">>,
       <<"Canto", "solista\\s+vocal">>, <<"Canto", "artista\\s+do\\s+coro">> >>

(* BOND_KEYWORDS in dict order: <<bond type, patterns>>. *)
BOND_KEYWORDS ==
    << <<"CLT", {"clt", "carteira assinada", "regime celetista"}>>,
       <<"Estatutario", {"estatut[aa]rio", "cargo p[uu]blico", "concurso p[uu]blico", "efetivo"}>>,
       <<"Temporario", {"tempor[aa]rio", "processo seletivo", "pss", "determinado"}>>,
       <<"Bolsa", {"bolsa", "bolsista", "est[aa]gio", "ajuda de custo"}>> >>

----------------------------------------------------------------------------
(* Page text: tokens joined by single spaces *)

(* A word of the page, as written in the original text.  Every token has a *)
(* field p for the punctuation that follows it without a space.            *)
Word(s) == [k |-> "word", s |-> s, g2 |-> <<>>, g3 |-> <<>>, n |-> 0, p |-> ""]

(* A monetary expression by the groups of SALARY_CONFIG['regex']: g1 the      *)
(* currency marker "R$ " (or ""), g2 the integer run, character by character, *)
(* g3 the two fraction digits (<<>> when the group did not take part).        *)
Money(g1, g2, g3) == [k |-> "money", s |-> g1, g2 |-> g2, g3 |-> g3, n |-> 0, p |-> ""]

(* A run of n whitespace characters (spaces or line breaks). *)
Blank(n) == [k |-> "ws", s |-> "", g2 |-> <<>>, g3 |-> <<>>, n |-> n, p |-> ""]

(* The token t followed at once by the punctuation p, as in "CLT." *)
Punct(t, p) == [t EXCEPT !.p = p]

TokLen(t) ==
    IF t.k = "ws" THEN t.n
    ELSE Len(t.s) + Len(t.g2) + (IF t.g3 = <<>> THEN 0 ELSE 1 + Len(t.g3))

(* Offset of the first character of token i (0-based, as str offsets). *)
RECURSIVE TokStart(_, _)
TokStart(text, i) ==
    IF i = 1 THEN 0
    ELSE TokStart(text, i - 1) + TokLen(text[i - 1]) + Len(text[i - 1].p) + 1

(* Offset after the last character of token i, its punctuation not counted. *)
TokEnd(text, i) == TokStart(text, i) + TokLen(text[i])

(* Offset after the punctuation of token i. *)
TokStop(text, i) == TokEnd(text, i) + Len(text[i].p)

(* len(text) *)
TextLen(text) == IF text = <<>> THEN 0 ELSE TokStop(text, Len(text))

(* Whether the character at offset off inside token t is whitespace. *)
TokSpaceAt(t, off) ==
    \/ t.k = "ws"
    \/ t.k = "money" /\ t.s = "R$ " /\ off = 2

(* text[lo:hi].replace('\n', ' ').strip(), as the span <<lo', hi'>> of the    *)
(* original text that is left once leading and trailing whitespace is gone.   *)
Strip(text, lo, hi) ==
    LET first(i) ==
            LET a == TokStart(text, i)
                p == Max2(lo, a)
            IN  IF TokSpaceAt(text[i], p - a) THEN p + 1 ELSE p
        last(i) ==
            LET a == TokStart(text, i)
                p == Min2(hi, TokStop(text, i)) - 1
            IN  IF TokSpaceAt(text[i], p - a) THEN p - 1 ELSE p
        inside == {i \in 1..Len(text) :
                      /\ text[i].k # "ws"
                      /\ TokStart(text, i) < hi /\ TokStop(text, i) > lo
                      /\ first(i) <= last(i)}
    IN  IF inside = {} THEN <<lo, lo>>
        ELSE <<SetMin({first(i) : i \in inside}), SetMax({last(i) : i \in inside}) + 1>>

(* unicodedata.normalize('NFKD', s).encode('ASCII','ignore').lower() on the  *)
(* words of the model.  The module is plain ASCII: the one accented letter   *)
(* of a page text, the a with acute accent of "sal^rio", is written ^.       *)
normalize_text(s) ==
    CASE s = "Fagote" -> "fagote"
      [] s = "FAGOTISTA" -> "fagotista"
      [] s = "Viola" -> "viola"
      [] s = "Mensal" -> "mensal"
      [] s = "TAXA" -> "taxa"
      [] s = "CLT" -> "clt"
      [] s = "Bolsa" -> "bolsa"
      [] s = "sal^rio" -> "salario"
      [] OTHER -> s

(* re.IGNORECASE: matching compares the case-folded text. *)
IgnoreCase(s) == normalize_text(s)

(* _has_keyword_simple on the normalized window text[lo:hi]: some keyword    *)
(* matches \bkw\b.  Words are separated by whitespace, so a word matches     *)
(* when it lies wholly inside the window and normalizes to the keyword.      *)
has_keyword_simple(text, lo, hi, keywords) ==
    \E i \in 1..Len(text) :
        /\ text[i].k = "word"
        /\ lo <= TokStart(text, i) /\ TokEnd(text, i) <= hi
        /\ normalize_text(text[i].s) \in keywords

----------------------------------------------------------------------------
(* pandas helpers *)

(* pd.to_numeric(page_num, errors='coerce'): a page number is <<n>>, or <<>>  *)
(* when it is missing or not numeric (NaN).                                   *)
isna(pn) == pn = <<>>

(* DataFrame.sort_values(col, ascending=False) with the default kind,         *)
(* quicksort, which is not stable: every order of the rows with nonincreasing *)
(* keys is a possible outcome.  The orders, as sequences of row positions.    *)
RECURSIVE SortOrders(_, _)
SortOrders(keys, S) ==
    IF S = {} THEN {<<>>}
    ELSE LET m == SetMax({keys[i] : i \in S})
         IN  UNION {{<<i>> \o rest : rest \in SortOrders(keys, S \ {i})} :
                        i \in {j \in S : keys[j] = m}}

sort_values(rows, keys) ==
    {[k \in 1..Len(rows) |-> rows[p[k]]] : p \in SortOrders(keys, 1..Len(rows))}

(* DataFrame.drop_duplicates(subset=['doc_id','page_num','canonical_value']), *)
(* keep='first'.                                                              *)
DupKey(row) == <<row.doc_id, row.page_num, row.canonical_value>>

RECURSIVE drop_duplicates(_)
drop_duplicates(rows) ==
    IF rows = <<>> THEN <<>>
    ELSE LET n == Len(rows)
             init == drop_duplicates(SubSeq(rows, 1, n - 1))
         IN  IF \E j \in 1..(n - 1) : DupKey(rows[j]) = DupKey(rows[n])
             THEN init ELSE Append(init, rows[n])

----------------------------------------------------------------------------
(* load_data *)

required_silver_cols == {"doc_id", "full_text", "page_num"}

(* The manifest row kept for doc_id d: with a downloaded_at column the most *)
(* recent one (sort descending, keep first), else the last one.             *)
ManifestRow(rows, cols, d) ==
    LET of_d == {k \in 1..Len(rows) : rows[k].doc_id = d}
    IN  IF "downloaded_at" \in cols
        THEN rows[CHOOSE k \in of_d :
                     \A j \in of_d : \/ rows[k].downloaded_at > rows[j].downloaded_at
                                     \/ (rows[k].downloaded_at = rows[j].downloaded_at /\ k <= j)]
        ELSE rows[SetMax(of_d)]

(* A validation that does not look for the join key of the manifest. *)
LoadFailsJoinKeyUnchecked ==
    \/ ~inputs.silver_exists
    \/ ~(required_silver_cols \subseteq inputs.silver_cols)
    \/ ~inputs.manifest_exists

LoadFails ==
    \/ ~inputs.silver_exists
    \/ ~(required_silver_cols \subseteq inputs.silver_cols)
    \/ ~inputs.manifest_exists
    \/ "doc_id" \notin inputs.manifest_cols

(* silver_data.merge(manifest[cols_available], on='doc_id', how='left') and *)
(* the fillna of source_name.                                               *)
MergedRow(row, manifest) ==
    [doc_id |-> row.doc_id,
     page_num |-> row.page_num,
     full_text |-> row.full_text,
     source_name |->
        IF "source_name" \notin inputs.manifest_cols THEN "unknown"
        ELSE IF row.doc_id \in DOMAIN manifest THEN manifest[row.doc_id].source_name
        ELSE "unknown_source"]

(* The critical records of a failed load_data: its own, when columns of the *)
(* page-text table are missing, and the one of the except clause of         *)
(* __main__, which then exits with status 1.                                *)
LoadDiagnostics ==
    (IF inputs.silver_exists /\ ~(required_silver_cols \subseteq inputs.silver_cols)
     THEN {<<"CRITICAL", "Colunas ausentes no Silver">>} ELSE {})
    \cup {<<"CRITICAL", "Falha na execucao do pipeline Gold">>}

load_data ==
    /\ pc = "load_data"
    /\ IF LoadFails
       THEN /\ pc' = "failed"
            /\ log' = log \cup LoadDiagnostics
            /\ exit_status' = <<1>>
            /\ UNCHANGED <<manifest_data, silver_data>>
       ELSE LET rows == inputs.manifest_rows
                docs == {rows[k].doc_id : k \in 1..Len(rows)}
                manifest == [d \in docs |-> ManifestRow(rows, inputs.manifest_cols, d)]
            IN  /\ manifest_data' = manifest
                /\ silver_data' = [r \in 1..Len(inputs.silver_rows) |->
                                      MergedRow(inputs.silver_rows[r], manifest)]
                /\ pc' = "extract_instruments"
                /\ UNCHANGED <<log, exit_status>>
    /\ UNCHANGED <<inputs, candidates, salaries, opportunities, files>>
    /\ UNCHANGED ingest_vars

----------------------------------------------------------------------------
(* extract_instruments *)

(* The patterns with a backslash, "(?" or one of basic_markers: used as they *)
(* are.  Every other pattern is wrapped in \b ... \b.                        *)
ComplexPatterns ==
    {"obo[ee]", "obo[ii]sta", "corne\\s+ingl[ee]s", "\\bviola(?!\\w)",
     "baixo\\s+ac[uu]stico", "percuss[aa]o", "t[ii]mpanos", "cantor(?:a)?",
     "solista\\s+vocal", "artista\\s+do\\s+coro"}

is_complex(pattern) == pattern \in ComplexPatterns

(* A search without the word boundary after a bare pattern, on the words of *)
(* the model: "pianos" then holds a match of piano.                         *)
PatternSpanOpenEnd(pattern, s) ==
    LET low == IgnoreCase(s)
    IN  IF ~is_complex(pattern) /\ (low = pattern \/ (pattern = "piano" /\ low = "pianos"))
        THEN <<0, Len(pattern)>> ELSE <<>>

(* re.finditer(regex_pattern, word, re.IGNORECASE) on one whitespace-delimited *)
(* word: <<>> when the pattern does not match in it, else <<offset, length>>   *)
(* of the match inside the word.                                               *)
PatternSpan(pattern, s) ==
    LET low == IgnoreCase(s)
    IN  CASE ~is_complex(pattern) ->
                 IF low = pattern THEN <<0, Len(s)>> ELSE <<>>
          [] pattern = "\\bviola(?!\\w)" ->
                 IF low = "viola" THEN <<0, 5>> ELSE <<>>
          [] pattern = "cantor(?:a)?" ->
                 IF low = "cantora" THEN <<0, 7>>
                 ELSE IF low \in {"cantor", "cantores"} THEN <<0, 6>> ELSE <<>>
          [] pattern = "obo[ee]" ->
                 IF low \in {"oboe", "oboes"} THEN <<0, 4>> ELSE <<>>
          [] OTHER -> <<>>

(* One raw match: page row r, taxonomy entry e, token i. *)
InstrumentRow(r, e, i) ==
    LET row == silver_data[r]
        text == row.full_text
        span == PatternSpan(INSTRUMENT_TAXONOMY[e][2], text[i].s)
        start == TokStart(text, i) + span[1]
        end == start + span[2]
        ctx_start == Max2(0, start - InstrumentRadius)
        ctx_end == Min2(TextLen(text), end + InstrumentRadius)
        ev == Strip(text, ctx_start, ctx_end)
    IN  [doc_id |-> row.doc_id,
         source_name |-> row.source_name,
         page_num |-> row.page_num[1],
         entity_type |-> "INSTRUMENTO",
         canonical_value |-> INSTRUMENT_TAXONOMY[e][1],
         raw_value |-> <<text[i].s, span[1], span[2]>>,
         evidence_text |-> [row |-> r, lo |-> ev[1], hi |-> ev[2]],
         match_start_idx |-> start,
         confidence |-> "HIGH"]

(* DataFrame(extracted_rows): row n of the list gets the index label n - 1. *)
DataFrame(rows) == [n \in 1..Len(rows) |-> [index |-> n - 1] @@ rows[n]]

(* The matches of taxonomy entry e on page row r, from left to right. *)
(* For a pattern that does not compile re.finditer raises re.error before   *)
(* any match is appended, and `except re.error: pass` goes on to the next    *)
(* pattern.                                                                  *)
PatternMatches(r, e) ==
    LET text == silver_data[r].full_text
    IN  IF e \in inputs.broken THEN <<>>
        ELSE Concat([i \in 1..Len(text) |->
                IF /\ text[i].k = "word"
                   /\ PatternSpan(INSTRUMENT_TAXONOMY[e][2], text[i].s) # <<>>
                THEN <<InstrumentRow(r, e, i)>> ELSE <<>>])

(* extracted_rows, in scan order: page rows (those with a numeric page      *)
(* number), then taxonomy entries, then the matches of one pattern.         *)
InstrumentMatches ==
    Concat([r \in 1..Len(silver_data) |->
        IF isna(silver_data[r].page_num) THEN <<>>
        ELSE Concat([e \in 1..Len(INSTRUMENT_TAXONOMY) |-> PatternMatches(r, e)])])

evidence_len(row) == row.evidence_text.hi - row.evidence_text.lo

(* A deduplication without the sort: the first raw match of each group. *)
InstrumentOutcomesUnsorted(rows) == {drop_duplicates(DataFrame(rows))}

(* The candidates extract_instruments can leave: sorted by evidence length, *)
(* longest first, then one row kept per (doc_id, page_num, canonical).      *)
InstrumentOutcomes(rows) ==
    LET df == DataFrame(rows)
    IN  {drop_duplicates(sorted) :
            sorted \in sort_values(df, [n \in 1..Len(df) |-> evidence_len(df[n])])}

extract_instruments ==
    /\ pc = "extract_instruments"
    /\ candidates' \in InstrumentOutcomes(InstrumentMatches)
    /\ pc' = "extract_salaries"
    /\ UNCHANGED <<inputs, manifest_data, silver_data, salaries, opportunities, files,
                   log, exit_status>>
    /\ UNCHANGED ingest_vars

----------------------------------------------------------------------------
(* extract_salaries *)

Digits == {"0", "1", "2", "3", "4", "5", "6", "7", "8", "9"}

DigitVal(c) ==
    CASE c = "0" -> 0 [] c = "1" -> 1 [] c = "2" -> 2 [] c = "3" -> 3 [] c = "4" -> 4
      [] c = "5" -> 5 [] c = "6" -> 6 [] c = "7" -> 7 [] c = "8" -> 8 [] c = "9" -> 9

(* (?:\d{1,3}(?:\.\d{3})+) *)
GroupedRun(g2) ==
    \E k \in 1..3 :
        /\ Len(g2) > k
        /\ (Len(g2) - k) % 4 = 0
        /\ \A j \in 1..Len(g2) :
              IF j > k /\ (j - k) % 4 = 1 THEN g2[j] = "." ELSE g2[j] \in Digits

(* (?:\d{3,6}) *)
BareRun(g2) == Len(g2) \in 3..6 /\ \A j \in 1..Len(g2) : g2[j] \in Digits

(* SALARY_CONFIG['regex'] on one whitespace-delimited monetary token: the     *)
(* token is matched whole when its integer run is thousands-grouped or a bare *)
(* run of 3 to 6 digits and its fraction, if any, has two digits.             *)
salary_pattern(t) ==
    /\ t.k = "money"
    /\ t.s \in {"", "R$ "}
    /\ GroupedRun(t.g2) \/ BareRun(t.g2)
    /\ t.g3 = <<>> \/ (Len(t.g3) = 2 /\ \A j \in 1..2 : t.g3[j] \in Digits)

(* int_part_raw.replace('.', '') *)
RECURSIVE RemoveDots(_)
RemoveDots(cs) ==
    IF cs = <<>> THEN <<>>
    ELSE IF Head(cs) = "." THEN RemoveDots(Tail(cs))
    ELSE <<Head(cs)>> \o RemoveDots(Tail(cs))

(* The number a run of digits denotes. *)
RECURSIVE DigitsValue(_)
DigitsValue(cs) ==
    IF cs = <<>> THEN 0
    ELSE 10 * DigitsValue(SubSeq(cs, 1, Len(cs) - 1)) + DigitVal(cs[Len(cs)])

(* An amount read without its two fraction digits. *)
ParseAmountWhole(int_part_raw, dec_part_raw) == DigitsValue(RemoveDots(int_part_raw))

(* float(f"{int_clean}.{dec_clean}"), in hundredths (centavos). *)
ParseAmount(int_part_raw, dec_part_raw) ==
    LET int_clean == RemoveDots(int_part_raw)
        dec_clean == IF dec_part_raw # <<>> THEN dec_part_raw ELSE <<"0", "0">>
    IN  100 * DigitsValue(int_clean) + DigitsValue(dec_clean)

HasDot(cs) == \E j \in 1..Len(cs) : cs[j] = "."

(* A score whose negative keyword costs one point only. *)
SalaryScoreMildPenalty(symbol_found, has_positive, has_negative) ==
    (IF symbol_found THEN ScoreSymbol ELSE 0)
    + (IF has_positive THEN ScorePositive ELSE 0)
    - (IF has_negative THEN 1 ELSE 0)

(* score: +2 currency marker, +3 positive keyword, -10 negative keyword. *)
SalaryScore(symbol_found, has_positive, has_negative) ==
    (IF symbol_found THEN ScoreSymbol ELSE 0)
    + (IF has_positive THEN ScorePositive ELSE 0)
    - (IF has_negative THEN ScoreNegative ELSE 0)

(* A loop body whose salary range excludes its two ends. *)
SalaryAcceptedOpenRange(symbol_found, int_part_raw, dec_part_raw, has_positive, has_negative) ==
    LET has_format == HasDot(int_part_raw) \/ dec_part_raw # <<>>
        val == ParseAmount(int_part_raw, dec_part_raw)
        is_year_range == 100 * YearLo <= val /\ val <= 100 * YearHi
        is_raw_number == ~HasDot(int_part_raw) /\ dec_part_raw = <<>>
        score == SalaryScore(symbol_found, has_positive, has_negative)
    IN  IF ~symbol_found /\ ~has_format /\ ~has_positive THEN FALSE
        ELSE IF ~(100 * min_val < val /\ val < 100 * max_val) THEN FALSE
        ELSE IF is_year_range /\ is_raw_number /\ ~symbol_found /\ ~has_positive THEN FALSE
        ELSE IF ~symbol_found /\ ~has_positive THEN FALSE
        ELSE IF score < 0 THEN FALSE
        ELSE TRUE

(* A loop body without the final gate on currency marker or positive keyword. *)
SalaryAcceptedNoGate(symbol_found, int_part_raw, dec_part_raw, has_positive, has_negative) ==
    LET has_format == HasDot(int_part_raw) \/ dec_part_raw # <<>>
        val == ParseAmount(int_part_raw, dec_part_raw)
        is_year_range == 100 * YearLo <= val /\ val <= 100 * YearHi
        is_raw_number == ~HasDot(int_part_raw) /\ dec_part_raw = <<>>
        score == SalaryScore(symbol_found, has_positive, has_negative)
    IN  IF ~symbol_found /\ ~has_format /\ ~has_positive THEN FALSE
        ELSE IF ~(100 * min_val <= val /\ val <= 100 * max_val) THEN FALSE
        ELSE IF is_year_range /\ is_raw_number /\ ~symbol_found /\ ~has_positive THEN FALSE
        ELSE IF score < 0 THEN FALSE
        ELSE TRUE

(* The body of the loop over the matches, from the safety rule to the append: *)
(* whether the match is kept.  Each IF is one `continue` of the code, in the  *)
(* code's order.                                                              *)
SalaryAccepted(symbol_found, int_part_raw, dec_part_raw, has_positive, has_negative) ==
    LET has_format == HasDot(int_part_raw) \/ dec_part_raw # <<>>
        val == ParseAmount(int_part_raw, dec_part_raw)
        is_year_range == 100 * YearLo <= val /\ val <= 100 * YearHi
        is_raw_number == ~HasDot(int_part_raw) /\ dec_part_raw = <<>>
        score == SalaryScore(symbol_found, has_positive, has_negative)
    IN  IF ~symbol_found /\ ~has_format /\ ~has_positive THEN FALSE
        ELSE IF ~(100 * min_val <= val /\ val <= 100 * max_val) THEN FALSE
        ELSE IF is_year_range /\ is_raw_number /\ ~symbol_found /\ ~has_positive THEN FALSE
        ELSE IF ~symbol_found /\ ~has_positive THEN FALSE
        ELSE IF score < 0 THEN FALSE
        ELSE TRUE

(* A context window of twice the radius. *)
SalaryContextWide(text, i) ==
    LET start == TokStart(text, i)
        end == TokEnd(text, i)
        ctx_start == Max2(0, start - 2 * SalaryRadius)
        ctx_end == Min2(TextLen(text), end + 2 * SalaryRadius)
    IN  [start |-> start, ctx_start |-> ctx_start, ctx_end |-> ctx_end,
         has_positive |-> has_keyword_simple(text, ctx_start, ctx_end, positive_keywords),
         has_negative |-> has_keyword_simple(text, ctx_start, ctx_end, negative_keywords)]

(* The context of the match at token i of the page text: the window bounds    *)
(* and the two keyword tests on the normalized window.                        *)
SalaryContext(text, i) ==
    LET start == TokStart(text, i)
        end == TokEnd(text, i)
        ctx_start == Max2(0, start - SalaryRadius)
        ctx_end == Min2(TextLen(text), end + SalaryRadius)
    IN  [start |-> start, ctx_start |-> ctx_start, ctx_end |-> ctx_end,
         has_positive |-> has_keyword_simple(text, ctx_start, ctx_end, positive_keywords),
         has_negative |-> has_keyword_simple(text, ctx_start, ctx_end, negative_keywords)]

(* The row appended for the match at token i of page row r, when it is kept. *)
SalaryRow(r, i) ==
    LET row == silver_data[r]
        text == row.full_text
        t == text[i]
        ctx == SalaryContext(text, i)
        ev == Strip(text, ctx.ctx_start, ctx.ctx_end)
    IN  [doc_id |-> row.doc_id,
         source_name |-> row.source_name,
         page_num |-> row.page_num[1],
         entity_type |-> "SALARIO",
         canonical_value |-> ParseAmount(t.g2, t.g3),
         raw_value |-> t,
         evidence_text |-> [row |-> r, lo |-> ev[1], hi |-> ev[2]],
         match_start_idx |-> ctx.start,
         score |-> SalaryScore(t.s # "", ctx.has_positive, ctx.has_negative)]

(* The rows one match of the salary pattern adds to extracted_rows. *)
TokenSalaries(r, i) ==
    LET text == silver_data[r].full_text
        t == text[i]
        ctx == SalaryContext(text, i)
    IN  IF /\ salary_pattern(t)
           /\ SalaryAccepted(t.s # "", t.g2, t.g3, ctx.has_positive, ctx.has_negative)
        THEN <<SalaryRow(r, i)>> ELSE <<>>

(* extracted_rows, in scan order: page rows (those with a numeric page      *)
(* number), then matches from left to right.                                *)
SalaryMatches ==
    Concat([r \in 1..Len(silver_data) |->
        IF isna(silver_data[r].page_num) THEN <<>>
        ELSE Concat([i \in 1..Len(silver_data[r].full_text) |-> TokenSalaries(r, i)])])

(* The orders extract_salaries can leave the salary table in. *)
SalaryOutcomes(rows) ==
    LET df == DataFrame(rows)
    IN  sort_values(df, [n \in 1..Len(df) |-> df[n].score])

extract_salaries ==
    /\ pc = "extract_salaries"
    /\ salaries' \in SalaryOutcomes(SalaryMatches)
    /\ pc' = "save_all"
    /\ log' = IF salaries' = <<>>
              THEN log \cup {<<"WARNING", "Nenhum salario valido identificado.">>}
              ELSE log
    /\ UNCHANGED <<inputs, manifest_data, silver_data, candidates, opportunities, files,
                   exit_status>>
    /\ UNCHANGED ingest_vars

----------------------------------------------------------------------------
(* save_all *)

(* A save_all that writes both staging tables, empty or not. *)
save_all_unconditional ==
    /\ pc = "save_all"
    /\ files' = files \cup {"staging_instruments.parquet", "staging_salaries.parquet"}
    /\ pc' = "match_opportunities"
    /\ UNCHANGED <<inputs, manifest_data, silver_data, candidates, salaries, opportunities,
                   log, exit_status>>
    /\ UNCHANGED ingest_vars

save_all ==
    /\ pc = "save_all"
    /\ files' = files
          \cup (IF candidates # <<>> THEN {"staging_instruments.parquet"} ELSE {})
          \cup (IF salaries # <<>> THEN {"staging_salaries.parquet"} ELSE {})
    /\ pc' = "match_opportunities"
    /\ UNCHANGED <<inputs, manifest_data, silver_data, candidates, salaries, opportunities,
                   log, exit_status>>
    /\ UNCHANGED ingest_vars

----------------------------------------------------------------------------
(* match_opportunities *)

(* A salaries_map keyed by the document alone: the salaries of every page *)
(* of the document.                                                       *)
salaries_map_any_page(doc_id, page_num) ==
    {k \in 1..Len(salaries) : salaries[k].doc_id = doc_id}

(* salaries_map[(doc_id, page_num)]: the salary rows of the page, in the    *)
(* order of self.salaries, as positions in self.salaries.                   *)
salaries_map(doc_id, page_num) ==
    {k \in 1..Len(salaries) :
        salaries[k].doc_id = doc_id /\ salaries[k].page_num = page_num}

Dist(inst, sal) == Abs(inst.match_start_idx - sal.match_start_idx)

(* A window that takes the distance 3000 itself. *)
WithinWindowInclusive(dist) == dist <= ProximityWindow

(* The test that puts a salary of the page among valid_candidates. *)
WithinWindow(dist) == dist < ProximityWindow

valid_candidates(inst) ==
    {k \in salaries_map(inst.doc_id, inst.page_num) :
        WithinWindow(Dist(inst, salaries[k]))}

(* An ordering by distance first: key=(dist, -score). *)
SortsBeforeNearest(inst, a, b) ==
    \/ Dist(inst, salaries[a]) < Dist(inst, salaries[b])
    \/ /\ Dist(inst, salaries[a]) = Dist(inst, salaries[b])
       /\ salaries[a].score > salaries[b].score
    \/ /\ Dist(inst, salaries[a]) = Dist(inst, salaries[b])
       /\ salaries[a].score = salaries[b].score
       /\ a <= b

(* valid_candidates.sort(key=(-score, dist)) is stable: the first element is *)
(* the least under (-score, dist), and among equals the first of the list.   *)
SortsBefore(inst, a, b) ==
    \/ salaries[a].score > salaries[b].score
    \/ /\ salaries[a].score = salaries[b].score
       /\ Dist(inst, salaries[a]) < Dist(inst, salaries[b])
    \/ /\ salaries[a].score = salaries[b].score
       /\ Dist(inst, salaries[a]) = Dist(inst, salaries[b])
       /\ a <= b

best_salary(inst) ==
    LET valid == valid_candidates(inst)
    IN  IF valid = {} THEN 0
        ELSE CHOOSE a \in valid : \A b \in valid : SortsBefore(inst, a, b)

(* The words of an evidence text (those wholly inside its span), normalized. *)
EvidenceWords(ev) ==
    LET text == silver_data[ev.row].full_text
    IN  {normalize_text(text[i].s) : i \in {j \in 1..Len(text) :
            /\ text[j].k = "word"
            /\ ev.lo <= TokStart(text, j) /\ TokEnd(text, j) <= ev.hi}}

(* A classifier that lets the last matching bond type win. *)
detected_bond_last(words) ==
    LET hit == {b \in 1..Len(BOND_KEYWORDS) : BOND_KEYWORDS[b][2] \cap words # {}}
    IN  IF hit = {} THEN "Nao Informado" ELSE BOND_KEYWORDS[SetMax(hit)][1]

(* re.search(pat, combined_context) for a bond pattern: on the words of the  *)
(* model a pattern matches when a normalized word is the pattern itself.     *)
detected_bond(words) ==
    LET hit == {b \in 1..Len(BOND_KEYWORDS) : BOND_KEYWORDS[b][2] \cap words # {}}
    IN  IF hit = {} THEN "Nao Informado" ELSE BOND_KEYWORDS[SetMin(hit)][1]

(* formatar_real: f"R$ {val:,.2f}" with the marks swapped, as the groups of *)
(* the printed amount (thousands, units, centavos).                         *)
formatar_real(val) ==
    IF val = <<>> THEN <<"Nao Informado">>
    ELSE <<"R$", val[1] \div 100000, (val[1] \div 100) % 1000, val[1] % 100>>

OpportunityRow(inst) ==
    LET b == best_salary(inst)
        sal_words == IF b = 0 THEN {} ELSE EvidenceWords(salaries[b].evidence_text)
        base == [doc_id |-> inst.doc_id,
                 source_name |-> inst.source_name,
                 page_num |-> inst.page_num,
                 instrumento |-> inst.canonical_value,
                 contexto_instrumento |-> inst.evidence_text,
                 tipo_vinculo |-> detected_bond(EvidenceWords(inst.evidence_text) \cup sal_words)]
        link == IF b # 0
                THEN [salario_valor |-> <<salaries[b].canonical_value>>,
                      salario_score |-> salaries[b].score,
                      distancia_chars |-> Dist(inst, salaries[b]),
                      contexto_salario |-> <<salaries[b].evidence_text>>,
                      match_type |-> "PAGE_PROXIMITY"]
                ELSE [salario_valor |-> <<>>,
                      salario_score |-> 0,
                      distancia_chars |-> -1,
                      contexto_salario |-> <<>>,
                      match_type |-> "NO_MATCH"]
    IN  base @@ link @@ [salario_formatado |-> formatar_real(link.salario_valor)]

(* A matchmaker that records only the roles it could link. *)
match_opportunities_linked_only ==
    /\ pc = "match_opportunities"
    /\ IF candidates = <<>>
       THEN /\ log' = log \cup {<<"WARNING", "Sem instrumentos para associar.">>}
            /\ UNCHANGED <<opportunities, files>>
       ELSE LET Linked(o) == o.match_type = "PAGE_PROXIMITY"
            IN  /\ opportunities' = SelectSeq(
                      [n \in 1..Len(candidates) |-> OpportunityRow(candidates[n])], Linked)
                /\ files' = files \cup {"opportunities.parquet", "opportunities.csv"}
                /\ log' = log
    /\ pc' = "done"
    /\ exit_status' = <<0>>
    /\ UNCHANGED <<inputs, manifest_data, silver_data, candidates, salaries>>
    /\ UNCHANGED ingest_vars

match_opportunities ==
    /\ pc = "match_opportunities"
    /\ IF candidates = <<>>
       THEN /\ log' = log \cup {<<"WARNING", "Sem instrumentos para associar.">>}
            /\ UNCHANGED <<opportunities, files>>
       ELSE /\ opportunities' = [n \in 1..Len(candidates) |-> OpportunityRow(candidates[n])]
            /\ files' = files \cup {"opportunities.parquet", "opportunities.csv"}
            /\ log' = log
    /\ pc' = "done"
    /\ exit_status' = <<0>>
    /\ UNCHANGED <<inputs, manifest_data, silver_data, candidates, salaries>>
    /\ UNCHANGED ingest_vars

----------------------------------------------------------------------------
(* collect_raw.py and process_silver.py: collection and text extraction *)

(* The download_url of the seeds: two of the seeds of SEEDS, whose URLs are  *)
(* pairwise different.                                                       *)
SEEDS == <<"u1", "u2">>

FORCE_REDOWNLOAD == FALSE

max_retries == 3

RetryStatuses == {429, 500, 502, 503, 504}

(* The bodies a server can send: "A" is a PDF of two pages, "B" a file that  *)
(* starts with the PDF signature and that pdfplumber cannot open, "html" is  *)
(* not a PDF, "" is the empty body.                                          *)
PdfContents == {"A", "B"}

Contents == PdfContents \cup {"html", ""}

NumPages(content) == IF content = "A" THEN 2 ELSE 0

(* What one session.get can do: raise a RequestException, or answer with a   *)
(* status and a body.                                                        *)
Responses ==
    {[kind |-> "RequestException", status |-> 0, content |-> ""]}
        \cup {[kind |-> "response", status |-> s, content |-> ""] : s \in {404, 429, 503}}
        \cup {[kind |-> "response", status |-> 200, content |-> c] : c \in Contents}

NoDownload == [content |-> <<>>, status |-> 0, error |-> ""]

(* calculate_hashes: the md5 (the doc_id) and the sha256 of a content;       *)
(* different contents have different hashes.                                 *)
calculate_hashes(content) == [doc_id |-> <<"md5", content>>, sha256 |-> <<"sha256", content>>]

is_valid_pdf(content) == content \in PdfContents

(* The path data/raw/files/<doc_id>.pdf of a content. *)
FilePath(content) == <<"data/raw/files", content>>

(* The state between two runs of either program. *)
IngestIdle ==
    /\ manifest_parquet = <<>>
    /\ raw_pdfs = {}
    /\ parsed_pages = <<>>
    /\ manifest_df = <<>>
    /\ seed = 0
    /\ attempt = 0
    /\ backoff = 0
    /\ requests = 0
    /\ downloaded = NoDownload
    /\ runs = 0
    /\ silver_outcome = "none"
    /\ cpc = "idle"

(* Most collection runs of one behaviour. *)
MaxRuns == 2

(* collect_raw.main up to its loop: setup_environment and load_manifest. *)
collect_raw_main ==
    /\ cpc = "idle"
    /\ runs < MaxRuns
    /\ runs' = runs + 1
    /\ manifest_df' = manifest_parquet
    /\ seed' = 1
    /\ cpc' = "process_seed"
    /\ UNCHANGED <<manifest_parquet, raw_pdfs, parsed_pages, attempt, backoff, requests,
                   downloaded, silver_outcome>>
    /\ UNCHANGED gold_vars

(* Rows that would make process_seed skip only the URLs already parsed. *)
existing_parsed(m, url) ==
    {i \in 1..Len(m) : m[i].download_url = url /\ m[i].raw_download_ok /\ m[i].parsed_ok}

(* The rows of a manifest that make process_seed skip a URL. *)
existing(m, url) ==
    {i \in 1..Len(m) : m[i].download_url = url /\ m[i].raw_download_ok}

(* The loop of main after one seed. *)
NextSeed == IF seed < Len(SEEDS) THEN "process_seed" ELSE "save_manifest"

(* process_seed up to the call of download_file. *)
process_seed ==
    /\ cpc = "process_seed"
    /\ IF ~FORCE_REDOWNLOAD /\ manifest_df # <<>> /\ existing(manifest_df, SEEDS[seed]) # {}
         THEN /\ seed' = seed + 1
              /\ cpc' = NextSeed
              /\ UNCHANGED <<attempt, backoff, requests>>
         ELSE /\ attempt' = 0
              /\ backoff' = 2
              /\ requests' = 0
              /\ cpc' = "download_file"
              /\ UNCHANGED seed
    /\ UNCHANGED <<manifest_parquet, raw_pdfs, parsed_pages, manifest_df, downloaded, runs,
                   silver_outcome>>
    /\ UNCHANGED gold_vars

(* The loop condition of download_file. *)
RetryingOnceMore == attempt <= max_retries

Retrying == attempt < max_retries

(* One evaluation of the loop condition of download_file and, if it holds,   *)
(* one turn of the loop.                                                     *)
download_file ==
    /\ cpc = "download_file"
    /\ IF Retrying
         THEN \E resp \in Responses :
                /\ requests' = requests + 1
                /\ IF resp.kind = "RequestException" \/ resp.status \in RetryStatuses
                     THEN /\ attempt' = attempt + 1
                          /\ backoff' = backoff * 2
                          /\ UNCHANGED <<downloaded, cpc>>
                     ELSE /\ downloaded' =
                                IF resp.status # 200
                                  THEN [content |-> <<>>, status |-> resp.status,
                                        error |-> "HTTP status"]
                                  ELSE [content |-> <<resp.content>>, status |-> 200,
                                        error |-> ""]
                          /\ cpc' = "downloaded"
                          /\ UNCHANGED <<attempt, backoff>>
         ELSE /\ downloaded' = [content |-> <<>>, status |-> 0,
                                error |-> "Max retries exceeded"]
              /\ cpc' = "downloaded"
              /\ UNCHANGED <<attempt, backoff, requests>>
    /\ UNCHANGED <<manifest_parquet, raw_pdfs, parsed_pages, manifest_df, seed, runs,
                   silver_outcome>>
    /\ UNCHANGED gold_vars

(* The record process_seed starts from. *)
SeedRecord(url, status) ==
    [download_url |-> url, doc_id |-> <<>>, sha256 |-> <<>>, file_path |-> <<>>,
     http_status |-> status, raw_download_ok |-> FALSE, parsed_ok |-> FALSE,
     last_error_stage |-> <<>>]

(* The file_path process_seed gives to a content whose sha256 is already in  *)
(* the manifest: the one of the first row with that sha256 and a file_path.  *)
DuplicatePath(m, sha256) ==
    LET existing_row == {i \in 1..Len(m) : m[i].sha256 = sha256 /\ m[i].file_path # <<>>}
    IN  IF existing_row # {} THEN m[SetMin(existing_row)].file_path ELSE <<>>

(* process_seed after download_file: the records it can append to the        *)
(* manifest m, each with the contents it has written to data/raw/files.      *)
SeedOutcomes(m, url, result) ==
    LET record == SeedRecord(url, result.status)
    IN  IF result.content = <<>> \/ result.content = <<"">> \/ result.status # 200
          THEN {[record |-> [record EXCEPT !.last_error_stage = <<"download">>],
                 written |-> {}]}
        ELSE IF ~is_valid_pdf(result.content[1])
          THEN {[record |-> [record EXCEPT !.last_error_stage = <<"validation">>],
                 written |-> {}]}
        ELSE LET content == result.content[1]
                 hashes == calculate_hashes(content)
                 hashed == [record EXCEPT !.doc_id = hashes.doc_id,
                                          !.sha256 = hashes.sha256]
             IN  IF m # <<>> /\ \E i \in 1..Len(m) : m[i].sha256 = hashes.sha256
                   THEN {[record |-> [hashed EXCEPT
                                        !.file_path = DuplicatePath(m, hashes.sha256),
                                        !.raw_download_ok = TRUE],
                          written |-> {}]}
                   ELSE {[record |-> [hashed EXCEPT !.file_path = FilePath(content),
                                                    !.raw_download_ok = TRUE],
                          written |-> {content}],
                         [record |-> [hashed EXCEPT !.last_error_stage = <<"save_to_disk">>],
                          written |-> {}]}

process_seed_record ==
    /\ cpc = "downloaded"
    /\ \E o \in SeedOutcomes(manifest_df, SEEDS[seed], downloaded) :
         /\ manifest_df' = Append(manifest_df, o.record)
         /\ raw_pdfs' = raw_pdfs \cup o.written
    /\ seed' = seed + 1
    /\ cpc' = NextSeed
    /\ attempt' = 0
    /\ backoff' = 0
    /\ requests' = 0
    /\ downloaded' = NoDownload
    /\ UNCHANGED <<manifest_parquet, parsed_pages, runs, silver_outcome>>
    /\ UNCHANGED gold_vars

(* save_manifest at the end of collect_raw.main: the file is replaced, or    *)
(* the write fails and is only logged.                                       *)
save_manifest ==
    /\ cpc = "save_manifest"
    /\ \E saved \in BOOLEAN :
         manifest_parquet' = IF saved THEN manifest_df ELSE manifest_parquet
    /\ manifest_df' = <<>>
    /\ seed' = 0
    /\ cpc' = "idle"
    /\ UNCHANGED <<raw_pdfs, parsed_pages, attempt, backoff, requests, downloaded, runs,
                   silver_outcome>>
    /\ UNCHANGED gold_vars

(* process_silver.main: the rows of the manifest it selects. *)
mask_to_process(m) ==
    {i \in 1..Len(m) : m[i].raw_download_ok /\ ~m[i].parsed_ok}

(* process_pdf on the file of row i: the pages it returns. *)
process_pdf(m, i) ==
    [p \in 1..NumPages(m[i].file_path[2]) |-> [doc_id |-> m[i].doc_id, page_num |-> p]]

(* The file of row i exists. *)
exists(m, i) == m[i].file_path[2] \in raw_pdfs

(* The pages of the rows i..Len(m) that process_silver.main selects. *)
RECURSIVE all_new_pages(_, _)
all_new_pages(m, i) ==
    IF i > Len(m) THEN <<>>
    ELSE (IF i \in mask_to_process(m) /\ exists(m, i) THEN process_pdf(m, i) ELSE <<>>)
             \o all_new_pages(m, i + 1)

(* The manifest after the loop of process_silver.main. *)
SilverManifest(m) ==
    [i \in 1..Len(m) |->
        IF i \in mask_to_process(m) /\ exists(m, i)
          THEN IF NumPages(m[i].file_path[2]) > 0
                 THEN [m[i] EXCEPT !.parsed_ok = TRUE, !.last_error_stage = <<>>]
                 ELSE [m[i] EXCEPT !.parsed_ok = FALSE,
                                   !.last_error_stage = <<"silver_parsing">>]
          ELSE m[i]]

(* process_silver.main, a whole run between two collection runs.  BASE_DIR / *)
(* file_path_rel raises a TypeError for a row without file_path, and nothing *)
(* of the run is kept.                                                       *)
process_silver_main ==
    /\ cpc = "idle"
    /\ LET m == manifest_parquet
           pages == all_new_pages(m, 1)
       IN  IF \E i \in mask_to_process(m) : m[i].file_path = <<>>
             THEN /\ silver_outcome' = "TypeError"
                  /\ UNCHANGED <<manifest_parquet, parsed_pages>>
           ELSE IF pages # <<>>
             THEN /\ parsed_pages' = parsed_pages \o pages
                  /\ manifest_parquet' = SilverManifest(m)
                  /\ silver_outcome' = "done"
           ELSE /\ silver_outcome' = "done"
                /\ UNCHANGED <<manifest_parquet, parsed_pages>>
    /\ UNCHANGED <<raw_pdfs, manifest_df, seed, attempt, backoff, requests, downloaded, runs, cpc>>
    /\ UNCHANGED gold_vars

----------------------------------------------------------------------------
(* Inputs of the model *)

(* inputs.broken: the entries of INSTRUMENT_TAXONOMY whose pattern does not  *)
(* compile (none in the taxonomy as shipped).                                *)

(* Most tokens of one page-text table. *)
MaxTokens == 4

(* The texts of 1..n tokens over the vocabulary V. *)
Texts(V, n) == UNION {[1..k -> V] : k \in 1..n}

(* The (doc_id, page_num) columns of the tables: one page; two pages of one  *)
(* document; the same page number in two documents; a page whose number is   *)
(* not numeric; the same key twice.                                          *)
OnePage == {<< <<"d1", <<1>> >> >>}

TwoPages ==
    {<< <<"d1", <<1>> >>, <<"d1", <<2>> >> >>,
     << <<"d1", <<1>> >>, <<"d2", <<1>> >> >>,
     << <<"d1", <<1>> >>, <<"d1", <<>> >> >>,
     << <<"d1", <<1>> >>, <<"d1", <<1>> >> >>}

SilverRow(key, text) == [doc_id |-> key[1], page_num |-> key[2], full_text |-> text]

(* The tables of at most n tokens in all: one page of any text over V, or  *)
(* two pages, the second with a text of Second.                            *)
Tables(V, Second, n) ==
    {<<SilverRow(keys[1], t)>> : keys \in OnePage, t \in Texts(V, n)}
    \cup {<<SilverRow(keys[1], t), SilverRow(keys[2], u)>> :
             keys \in TwoPages, t \in Texts(V, n - 1), u \in Second}

ManifestRows ==
    << [doc_id |-> "d1", source_name |-> "Orquestra A", downloaded_at |-> 1],
       [doc_id |-> "d1", source_name |-> "Orquestra A v2", downloaded_at |-> 2] >>

GoodInputs(rows) ==
    [silver_exists |-> TRUE, silver_cols |-> required_silver_cols \cup {"char_count"},
     silver_rows |-> rows,
     manifest_exists |-> TRUE,
     manifest_cols |-> {"doc_id", "source_name", "downloaded_at"},
     manifest_rows |-> ManifestRows,
     broken |-> {}]

(* Inputs load_data refuses: a missing file, a missing column, no join key. *)
BadInputs(rows) ==
    {[GoodInputs(rows) EXCEPT !.silver_exists = FALSE],
     [GoodInputs(rows) EXCEPT !.manifest_exists = FALSE],
     [GoodInputs(rows) EXCEPT !.manifest_cols = {"source_name"}]}
    \cup {[GoodInputs(rows) EXCEPT !.silver_cols = @ \ {c}] : c \in required_silver_cols}

Fagote == Word("Fagote")

Fagotista == Word("FAGOTISTA")

Viola == Word("Viola")

Mensal == Word("Mensal")

Taxa == Word("TAXA")

InitWith(tables) ==
    /\ \E rows \in tables :
          inputs \in {GoodInputs(rows)}
                     \cup (IF Len(rows) = 1 /\ Len(rows[1].full_text) = 1
                           THEN BadInputs(rows) ELSE {})
    /\ manifest_data = <<>>
    /\ silver_data = <<>>
    /\ candidates = <<>>
    /\ salaries = <<>>
    /\ opportunities = <<>>
    /\ files = {}
    /\ log = {}
    /\ exit_status = <<>>
    /\ pc = "load_data"
    /\ IngestIdle

(* Role and salary mentions around the proximity window. *)
MatchVocabulary ==
    {Fagote, Mensal,
     Money("R$ ", <<"8", "0", "0">>, <<>>),
     Money("R$ ", <<"1", "0", "0", "0">>, <<>>),
     Money("", <<"3", "5", "0", "0">>, <<>>),
     Blank(ProximityWindow - 9)}

MatchSecond == {<<Fagote>>, <<Money("R$ ", <<"8", "0", "0">>, <<>>)>>}

Init == InitWith(Tables(MatchVocabulary, MatchSecond, MaxTokens))

Next ==
    \/ load_data
    \/ extract_instruments
    \/ extract_salaries
    \/ save_all
    \/ match_opportunities

(* The whole pipeline on pages with role and salary mentions. *)
Spec == Init /\ [][Next]_vars

(* Role mentions of one or two canonical roles, close together or more than *)
(* an evidence window apart.                                                *)
InstrumentVocabulary ==
    {Fagote, Fagotista, Viola, Word("cantores"), Blank(InstrumentRadius - 5)}

InstrumentSecond == {<<Fagote>>, <<Fagotista, Fagote>>}

InitInstruments == InitWith(Tables(InstrumentVocabulary, InstrumentSecond, MaxTokens))

(* The whole pipeline on pages with several role mentions. *)
SpecInstruments == InitInstruments /\ [][Next]_vars

(* Monetary tokens: below, at and above the bounds of the range, inside and *)
(* at the bounds of the year range, with and without the currency marker,   *)
(* with and without grouping or fraction; two tokens the pattern rejects.   *)
SalaryTokens ==
    {Money("", <<"6", "0", "0">>, <<>>),
     Money("", <<"7", "0", "0">>, <<>>),
     Money("", <<"1", "9", "0", "0">>, <<>>),
     Money("", <<"2", "0", "2", "5">>, <<>>),
     Money("", <<"2", "1", "0", "0">>, <<>>),
     Money("", <<"3", "5", "0", "0">>, <<>>),
     Money("", <<"4", "5", "0", "0", "0">>, <<>>),
     Money("", <<"5", "0", "0", "0", "0">>, <<>>),
     Money("", <<"2", ".", "0", "2", "5">>, <<>>),
     Money("", <<"3", ".", "5", "0", "0">>, <<>>),
     Money("", <<"2", "0", "2", "5">>, <<"0", "0">>),
     Money("", <<"3", "5", "0", "0">>, <<"0", "0">>),
     Money("", <<"6", "9", "9">>, <<"9", "9">>),
     Money("", <<"4", "5", ".", "0", "0", "0">>, <<"0", "0">>),
     Money("", <<"4", "5", ".", "0", "0", "0">>, <<"0", "1">>),
     Money("R$ ", <<"6", "0", "0">>, <<>>),
     Money("R$ ", <<"7", "0", "0">>, <<>>),
     Money("R$ ", <<"2", "0", "2", "5">>, <<>>),
     Money("R$ ", <<"3", "5", "0", "0">>, <<>>),
     Money("R$ ", <<"5", ".", "0", "0", "0">>, <<"0", "0">>),
     Money("R$ ", <<"4", "5", "0", "0", "0">>, <<>>),
     Money("R$ ", <<"4", "5", ".", "0", "0", "0">>, <<"0", "1">>),
     Money("", <<"1", "2">>, <<>>),
     Money("R$ ", <<"1", "2", "3", "4", "5", "6", "7">>, <<>>)}

(* The words around a monetary token: a positive and a negative keyword, and *)
(* blanks that put a neighbour just inside or just outside the 120-character *)
(* window of a token.                                                        *)
ContextVocabulary == {Mensal, Taxa, Blank(SalaryRadius - 8), Blank(SalaryRadius - 7)}

InsertAt(seq, pos, x) == SubSeq(seq, 1, pos - 1) \o <<x>> \o SubSeq(seq, pos, Len(seq))

(* One monetary token among at most n - 1 context tokens. *)
SalaryTexts(n) ==
    {InsertAt(ctx, pos, m) :
        <<ctx, pos, m>> \in {<<c, q, t>> \in (Texts(ContextVocabulary, n - 1) \cup {<<>>})
                                              \X (1..n) \X SalaryTokens : q <= Len(c) + 1}}

InitSalaries ==
    InitWith({<<SilverRow(<<"d1", <<1>> >>, t)>> : t \in SalaryTexts(MaxTokens)})

(* The whole pipeline on pages with one monetary token in its context. *)
SpecSalaries == InitSalaries /\ [][Next]_vars

CLT == Word("CLT")

Bolsa == Word("Bolsa")

(* A role, a salary and words of two bond types, next to each other or more *)
(* than an evidence window apart.                                           *)
BondVocabulary ==
    {Fagote, Money("R$ ", <<"8", "0", "0">>, <<>>), CLT, Bolsa, Blank(SalaryRadius - 7)}

InitBonds ==
    InitWith({<<SilverRow(<<"d1", <<1>> >>, t)>> : t \in Texts(BondVocabulary, MaxTokens + 1)})

(* The whole pipeline on pages with bond words around a role and salaries. *)
SpecBonds == InitBonds /\ [][Next]_vars

(* The page text "Fagote: sal^rio mensal de R$ 8.500,00, regime CLT." *)
Sentence ==
    << Punct(Fagote, ":"), Word("sal^rio"), Word("mensal"), Word("de"),
       Punct(Money("R$ ", <<"8", ".", "5", "0", "0">>, <<"0", "0">>), ","),
       Word("regime"), Punct(CLT, ".") >>

(* The tokens of seq at the positions S, in their order. *)
Pick(seq, S) ==
    [k \in 1..Cardinality(S) |->
        seq[CHOOSE i \in S : Cardinality({j \in S : j < i}) = k - 1]]

(* One page with the sentence, or with what is left of it when tokens are *)
(* dropped.                                                               *)
InitSentence ==
    InitWith({<<SilverRow(<<"d1", <<1>> >>, Pick(Sentence, S))>> :
                 S \in (SUBSET (1..Len(Sentence))) \ {{}}})

(* The whole pipeline on the sentence and its parts. *)
SpecSentence == InitSentence /\ [][Next]_vars

(* Words that no taxonomy pattern matches: "pianos" holds the bare keyword *)
(* piano but not as a whole word.                                          *)
FillerWords == {"pianos", "de"}

(* A bare keyword in two letter cases among filler words and whitespace. *)
KeywordVocabulary ==
    {Fagote, Fagotista, Blank(InstrumentRadius - 5)} \cup {Word(w) : w \in FillerWords}

KeywordSecond == {<<Fagote>>, <<Word("pianos")>>}

InitKeyword == InitWith(Tables(KeywordVocabulary, KeywordSecond, MaxTokens))

(* The whole pipeline on pages with a bare keyword in filler text. *)
SpecKeyword == InitKeyword /\ [][Next]_vars

(* Role mentions for a taxonomy with a pattern that does not compile. *)
PatternErrorVocabulary == {Fagote, Fagotista, Viola}

(* The broken entries: none, the first pattern of Fagote, its second one. *)
BrokenEntries == {{}, {1}, {2}}

InitPatternError ==
    /\ \E rows \in Tables(PatternErrorVocabulary, InstrumentSecond, MaxTokens) :
       \E b \in BrokenEntries :
          inputs = [GoodInputs(rows) EXCEPT !.broken = b]
    /\ manifest_data = <<>>
    /\ silver_data = <<>>
    /\ candidates = <<>>
    /\ salaries = <<>>
    /\ opportunities = <<>>
    /\ files = {}
    /\ log = {}
    /\ exit_status = <<>>
    /\ pc = "load_data"
    /\ IngestIdle

(* The whole pipeline with a taxonomy pattern that does not compile. *)
SpecPatternError == InitPatternError /\ [][Next]_vars

(* Collection and text extraction, from empty data directories; the gold     *)
(* pipeline does not run.                                                    *)
InitIngest ==
    /\ IngestIdle
    /\ inputs = GoodInputs(<<>>)
    /\ manifest_data = <<>>
    /\ silver_data = <<>>
    /\ candidates = <<>>
    /\ salaries = <<>>
    /\ opportunities = <<>>
    /\ files = {}
    /\ log = {}
    /\ exit_status = <<>>
    /\ pc = "idle"

NextIngest ==
    \/ collect_raw_main
    \/ process_seed
    \/ download_file
    \/ process_seed_record
    \/ save_manifest
    \/ process_silver_main

SpecIngest == InitIngest /\ [][NextIngest]_vars

(* The same, with a download_file that keeps running once called: the loop   *)
(* of download_file has no blocking step other than the request, which has a *)
(* timeout.                                                                  *)
SpecIngestFair == SpecIngest /\ WF_vars(download_file)

----------------------------------------------------------------------------
(* Properties of match_opportunities, checked under Spec *)

Matched == pc = "done"

(* The opportunities made for role candidate c. *)
OppsOf(c) ==
    {n \in 1..Len(opportunities) :
        /\ opportunities[n].doc_id = c.doc_id
        /\ opportunities[n].page_num = c.page_num
        /\ opportunities[n].instrumento = c.canonical_value}

(* The salary candidates on the page of role candidate c. *)
SamePage(c) ==
    {k \in 1..Len(salaries) :
        salaries[k].doc_id = c.doc_id /\ salaries[k].page_num = c.page_num}

(* The salary candidates an opportunity of role candidate c can have been  *)
(* linked to: those whose amount, score, evidence and distance it carries. *)
LinkedTo(o, c) ==
    {k \in 1..Len(salaries) :
        /\ <<salaries[k].canonical_value>> = o.salario_valor
        /\ salaries[k].score = o.salario_score
        /\ <<salaries[k].evidence_text>> = o.contexto_salario
        /\ Abs(c.match_start_idx - salaries[k].match_start_idx) = o.distancia_chars}

(* C1: an opportunity of type PAGE_PROXIMITY carries a salary value, a       *)
(* distance of at most 3000 characters and a salary candidate of the page    *)
(* (doc_id, page_num) of its role candidate; an opportunity of type NO_MATCH *)
(* carries no salary value and no salary evidence.                           *)
C1_LinkInvariant ==
    \A c \in {candidates[n] : n \in 1..Len(candidates)} : \A n \in OppsOf(c) :
        LET o == opportunities[n]
        IN  /\ o.match_type \in {"PAGE_PROXIMITY", "NO_MATCH"}
            /\ o.match_type = "PAGE_PROXIMITY" =>
                  /\ o.salario_valor # <<>>
                  /\ o.distancia_chars >= 0 /\ o.distancia_chars <= 3000
                  /\ LinkedTo(o, c) # {}
                  /\ \A k \in LinkedTo(o, c) :
                        /\ salaries[k].doc_id = o.doc_id
                        /\ salaries[k].page_num = o.page_num
                        /\ silver_data[salaries[k].evidence_text.row].doc_id = c.doc_id
                        /\ silver_data[salaries[k].evidence_text.row].page_num = <<c.page_num>>
            /\ o.match_type = "NO_MATCH" =>
                  o.salario_valor = <<>> /\ o.contexto_salario = <<>>

(* C1 witness: a run that made a linked and an unlinked opportunity while a *)
(* salary candidate existed on another page than the unlinked role's.       *)
C1_Witness ==
    /\ Matched
    /\ \E n, m \in 1..Len(opportunities) :
          /\ opportunities[n].match_type = "PAGE_PROXIMITY"
          /\ opportunities[m].match_type = "NO_MATCH"
          /\ \E k \in 1..Len(salaries) :
                <<salaries[k].doc_id, salaries[k].page_num>>
                    # <<opportunities[m].doc_id, opportunities[m].page_num>>

(* C2 as stated: a role is linked (PAGE_PROXIMITY) exactly when some salary *)
(* candidate of its page lies at a distance of at most 3000 characters.     *)
C2_Original ==
    Matched =>
        \A c \in {candidates[n] : n \in 1..Len(candidates)} : \A n \in OppsOf(c) :
            opportunities[n].match_type = "PAGE_PROXIMITY"
                <=> \E k \in SamePage(c) :
                        Abs(c.match_start_idx - salaries[k].match_start_idx) <= 3000

(* C2 amended: a role is linked exactly when some salary candidate of its   *)
(* page lies at a distance strictly below 3000 characters; a salary at      *)
(* distance exactly 3000 does not qualify.                                  *)
C2_StrictWindow ==
    Matched =>
        \A c \in {candidates[n] : n \in 1..Len(candidates)} : \A n \in OppsOf(c) :
            opportunities[n].match_type = "PAGE_PROXIMITY"
                <=> \E k \in SamePage(c) :
                        Abs(c.match_start_idx - salaries[k].match_start_idx) < 3000

(* C2 witness: a role whose only salary candidate of the page is at distance *)
(* exactly 3000 ended as NO_MATCH.                                           *)
C2_Witness ==
    /\ Matched
    /\ \E n \in 1..Len(candidates) :
          /\ SamePage(candidates[n]) # {}
          /\ \A k \in SamePage(candidates[n]) :
                Abs(candidates[n].match_start_idx - salaries[k].match_start_idx) = 3000
          /\ \A m \in OppsOf(candidates[n]) : opportunities[m].match_type = "NO_MATCH"

(* C3: the linked salary has the highest score among the qualifying salary  *)
(* candidates of the page and, among those of that score, the smallest      *)
(* distance.                                                                *)
C3_BestSelected ==
    \A c \in {candidates[n] : n \in 1..Len(candidates)} : \A n \in OppsOf(c) :
        opportunities[n].match_type = "PAGE_PROXIMITY" =>
            \A k \in SamePage(c) :
                LET d == Abs(c.match_start_idx - salaries[k].match_start_idx)
                IN  d < 3000 =>
                       /\ salaries[k].score <= opportunities[n].salario_score
                       /\ salaries[k].score = opportunities[n].salario_score
                              => d >= opportunities[n].distancia_chars

(* C3 witness: the linked salary is farther from the role than another      *)
(* qualifying candidate of lower score.                                     *)
C3_Witness ==
    /\ Matched
    /\ \E n \in 1..Len(candidates) : \E m \in OppsOf(candidates[n]) :
          /\ opportunities[m].match_type = "PAGE_PROXIMITY"
          /\ \E k \in SamePage(candidates[n]) :
                /\ salaries[k].score < opportunities[m].salario_score
                /\ Abs(candidates[n].match_start_idx - salaries[k].match_start_idx)
                       < opportunities[m].distancia_chars

C5_OnePerRole ==
    Matched =>
        /\ Len(opportunities) = Len(candidates)
        /\ \A n \in 1..Len(candidates) : Cardinality(OppsOf(candidates[n])) = 1
        /\ \A m \in 1..Len(opportunities) : \E n \in 1..Len(candidates) : m \in OppsOf(candidates[n])

(* C5 witness: two surviving role candidates, one linked and one not.       *)
C5_Witness ==
    /\ Matched
    /\ Len(candidates) = 2
    /\ \E n, m \in 1..Len(opportunities) :
          /\ opportunities[n].match_type = "PAGE_PROXIMITY"
          /\ opportunities[m].match_type = "NO_MATCH"

----------------------------------------------------------------------------
(* Properties of extract_instruments, checked under SpecInstruments *)

(* extract_instruments has just returned its table of role candidates. *)
InstrumentsExtracted == pc = "extract_salaries"

(* The raw role matches of the pages, in scan order, with their index     *)
(* labels.                                                                *)
RawRoles == DataFrame(InstrumentMatches)

EvidenceLength(row) == row.evidence_text.hi - row.evidence_text.lo

(* C6: after extract_instruments at most one role candidate exists per      *)
(* (doc_id, page_num, canonical role), every group of raw matches has its   *)
(* survivor, and the survivor's evidence text is as long as the longest     *)
(* evidence text of the raw matches of its group.                           *)
C6_DedupLongest ==
    InstrumentsExtracted =>
        LET raw == RawRoles
        IN  /\ \A a, b \in 1..Len(candidates) :
                  DupKey(candidates[a]) = DupKey(candidates[b]) => a = b
            /\ \A n \in 1..Len(candidates) :
                  \E j \in 1..Len(raw) : raw[j] = candidates[n]
            /\ \A j \in 1..Len(raw) : \E n \in 1..Len(candidates) :
                  /\ DupKey(candidates[n]) = DupKey(raw[j])
                  /\ EvidenceLength(raw[j]) <= EvidenceLength(candidates[n])

(* C6 witness: a survivor that is not the first raw match of its group but *)
(* a later one with a longer evidence text.                                *)
C6_Witness ==
    /\ InstrumentsExtracted
    /\ LET raw == RawRoles
       IN  \E n \in 1..Len(candidates) : \E j \in 1..Len(raw) :
              /\ DupKey(raw[j]) = DupKey(candidates[n])
              /\ raw[j].index < candidates[n].index
              /\ EvidenceLength(raw[j]) < EvidenceLength(candidates[n])

----------------------------------------------------------------------------
(* Properties of extract_salaries, checked under SpecSalaries *)

SalariesExtracted == pc \in {"save_all", "match_opportunities", "done"}

(* The (page row, token) pairs of the monetary tokens of the table. *)
MoneyTokens ==
    {<<r, i>> \in (1..Len(silver_data)) \X (1..(MaxTokens + 1)) :
        /\ i <= Len(silver_data[r].full_text)
        /\ silver_data[r].full_text[i].k = "money"}

(* The salary candidates emitted for the token i of page row r. *)
Emitted(r, i) ==
    {k \in 1..Len(salaries) :
        /\ salaries[k].evidence_text.row = r
        /\ salaries[k].match_start_idx = TokStart(silver_data[r].full_text, i)}

(* Some keyword stands, whole, within 120 characters before the first or   *)
(* after the last character of token i.                                    *)
KeywordNear(text, i, keywords) ==
    \E j \in 1..Len(text) :
        /\ text[j].k = "word"
        /\ normalize_text(text[j].s) \in keywords
        /\ TokStart(text, j) >= TokStart(text, i) - 120
        /\ TokEnd(text, j) <= TokEnd(text, i) + 120

(* The amount of a token in hundredths, read digit by digit from the left. *)
RECURSIVE ReadAmount(_, _)
ReadAmount(cs, acc) ==
    IF cs = <<>> THEN acc
    ELSE ReadAmount(Tail(cs), IF Head(cs) = "." THEN acc ELSE 10 * acc + DigitVal(Head(cs)))

AmountOf(t) ==
    ReadAmount(t.g2 \o (IF t.g3 = <<>> THEN <<"0", "0">> ELSE t.g3), 0)

Formatted(t) == t.g3 # <<>> \/ \E j \in 1..Len(t.g2) : t.g2[j] = "."

(* The acceptance pipeline of the specification, in its stated order. *)
PipelineAccepts(amount, marker, formatted, positive, negative) ==
    LET range == 70000 <= amount /\ amount <= 4500000
        marker_guard == marker \/ formatted \/ positive
        year_guard == ~(190000 <= amount /\ amount <= 210000
                        /\ ~formatted /\ ~marker /\ ~positive)
        gate == marker \/ positive
        score == (IF marker THEN 2 ELSE 0) + (IF positive THEN 3 ELSE 0)
                 - (IF negative THEN 10 ELSE 0)
    IN  IF ~range THEN FALSE
        ELSE IF ~marker_guard THEN FALSE
        ELSE IF ~year_guard THEN FALSE
        ELSE IF ~gate THEN FALSE
        ELSE score >= 0

(* C8: a matched monetary token is emitted exactly when the six-step        *)
(* pipeline of the specification accepts it, with the amount its digits     *)
(* denote; a token the pattern does not match is never emitted; bare 3500   *)
(* near a positive keyword is emitted with 3500.00 and R$ 5.000,00 with     *)
(* 5000.00 and a score of at least 2.                                       *)
C8_PipelineEquivalence ==
    SalariesExtracted =>
        /\ \A k \in 1..Len(salaries) : \E h \in MoneyTokens : k \in Emitted(h[1], h[2])
        /\ \A h \in MoneyTokens :
              LET text == silver_data[h[1]].full_text
                  t == text[h[2]]
                  positive == KeywordNear(text, h[2], positive_keywords)
                  negative == KeywordNear(text, h[2], negative_keywords)
                  rows == Emitted(h[1], h[2])
              IN  /\ Cardinality(rows) <= 1
                  /\ rows # {} <=>
                        /\ salary_pattern(t)
                        /\ PipelineAccepts(AmountOf(t), t.s = "R$ ", Formatted(t),
                                           positive, negative)
                  /\ \A k \in rows : salaries[k].canonical_value = AmountOf(t)
                  /\ (t = Money("", <<"3", "5", "0", "0">>, <<>>) /\ positive /\ ~negative)
                        => \E k \in rows : salaries[k].canonical_value = 350000
                  /\ (t = Money("R$ ", <<"5", ".", "0", "0", "0">>, <<"0", "0">>) /\ ~negative)
                        => \E k \in rows : /\ salaries[k].canonical_value = 500000
                                           /\ salaries[k].score >= 2

(* C8 witness: bare 3500 near a positive keyword was emitted with 3500.00. *)
C8_Witness ==
    /\ SalariesExtracted
    /\ \E h \in MoneyTokens :
          /\ silver_data[h[1]].full_text[h[2]] = Money("", <<"3", "5", "0", "0">>, <<>>)
          /\ KeywordNear(silver_data[h[1]].full_text, h[2], positive_keywords)
          /\ \E k \in Emitted(h[1], h[2]) : salaries[k].canonical_value = 350000

(* C9: a monetary token without currency marker and without a positive      *)
(* keyword in its 120-character window is never emitted.                    *)
C9_NoContextRejected ==
    SalariesExtracted =>
        \A h \in MoneyTokens :
            LET text == silver_data[h[1]].full_text
            IN  (text[h[2]].s = "" /\ ~KeywordNear(text, h[2], positive_keywords))
                    => Emitted(h[1], h[2]) = {}

(* C9 witness: bare 2025 with a positive keyword on the page, but outside  *)
(* the window, was rejected.                                               *)
C9_Witness ==
    /\ SalariesExtracted
    /\ salaries = <<>>
    /\ \E h \in MoneyTokens :
          LET text == silver_data[h[1]].full_text
          IN  /\ text[h[2]] = Money("", <<"2", "0", "2", "5">>, <<>>)
              /\ ~KeywordNear(text, h[2], positive_keywords)
              /\ \E j \in 1..Len(text) : text[j] = Mensal

(* C10: the score of an emitted salary candidate is +2 for the currency     *)
(* marker, +3 for a positive keyword and -10 for a negative keyword in the  *)
(* window; a token whose score is below 0 is not emitted, so a token with   *)
(* marker and negative keyword but no positive keyword (2 - 10 = -8) is     *)
(* rejected.                                                                *)
C10_Score ==
    SalariesExtracted =>
        \A h \in MoneyTokens :
            LET text == silver_data[h[1]].full_text
                t == text[h[2]]
                positive == KeywordNear(text, h[2], positive_keywords)
                negative == KeywordNear(text, h[2], negative_keywords)
                expected == (IF t.s = "R$ " THEN 2 ELSE 0) + (IF positive THEN 3 ELSE 0)
                            - (IF negative THEN 10 ELSE 0)
            IN  /\ \A k \in Emitted(h[1], h[2]) : salaries[k].score = expected
                /\ expected < 0 => Emitted(h[1], h[2]) = {}
                /\ (t.s = "R$ " /\ ~positive /\ negative)
                      => expected = -8 /\ Emitted(h[1], h[2]) = {}

(* C10 witness: an in-range token with currency marker next to a negative  *)
(* keyword and no positive keyword was rejected.                           *)
C10_Witness ==
    /\ SalariesExtracted
    /\ salaries = <<>>
    /\ \E h \in MoneyTokens :
          LET text == silver_data[h[1]].full_text
          IN  /\ text[h[2]] = Money("R$ ", <<"5", ".", "0", "0", "0">>, <<"0", "0">>)
              /\ KeywordNear(text, h[2], negative_keywords)
              /\ ~KeywordNear(text, h[2], positive_keywords)

----------------------------------------------------------------------------
(* Properties of the bond classification, checked under SpecBonds *)

(* The normalized words that lie wholly inside the span of an evidence text. *)
WordsIn(span) ==
    IF span = <<>> THEN {}
    ELSE LET text == silver_data[span[1].row].full_text
         IN  {normalize_text(text[j].s) : j \in {i \in 1..Len(text) :
                 /\ text[i].k = "word"
                 /\ span[1].lo <= TokStart(text, i)
                 /\ TokEnd(text, i) <= span[1].hi}}

(* Whether a bond type has a keyword among the words. *)
BondMatches(bond, words) ==
    \E b \in 1..Len(BOND_KEYWORDS) :
        BOND_KEYWORDS[b][1] = bond /\ BOND_KEYWORDS[b][2] \cap words # {}

(* C11: the bond type of an opportunity is the first of CLT, Estatutario,   *)
(* Temporario, Bolsa with a keyword in the role evidence or in the evidence *)
(* of the linked salary (the role evidence alone on NO_MATCH), and the      *)
(* default exactly when none has one.                                       *)
C11_BondPriority ==
    \A n \in 1..Len(opportunities) :
        LET o == opportunities[n]
            words == WordsIn(<<o.contexto_instrumento>>) \cup WordsIn(o.contexto_salario)
        IN  o.tipo_vinculo =
                IF BondMatches("CLT", words) THEN "CLT"
                ELSE IF BondMatches("Estatutario", words) THEN "Estatutario"
                ELSE IF BondMatches("Temporario", words) THEN "Temporario"
                ELSE IF BondMatches("Bolsa", words) THEN "Bolsa"
                ELSE "Nao Informado"

(* C11 witness: an opportunity with the words of two bond types in its      *)
(* evidence got the first, and one whose only bond word stands in the       *)
(* evidence of a salary that was not selected got the default.              *)
C11_Witness ==
    /\ Matched
    /\ \E n \in 1..Len(opportunities) :
          LET o == opportunities[n]
          IN  /\ o.tipo_vinculo = "CLT"
              /\ "bolsa" \in WordsIn(<<o.contexto_instrumento>>) \cup WordsIn(o.contexto_salario)

(* C11 witness of the second case: the only bond word of the page stands in *)
(* the evidence of a salary candidate that was not selected.                *)
C11_WitnessNotSelected ==
    /\ Matched
    /\ \E n \in 1..Len(opportunities) : \E k \in 1..Len(salaries) :
          LET o == opportunities[n]
          IN  /\ o.match_type = "PAGE_PROXIMITY"
              /\ o.contexto_salario # <<salaries[k].evidence_text>>
              /\ "clt" \in WordsIn(<<salaries[k].evidence_text>>)
              /\ o.tipo_vinculo = "Nao Informado"

----------------------------------------------------------------------------
(* End to end, checked under SpecSentence *)

(* C12: the page table with the single page text                            *)
(* "Fagote: sal^rio mensal de R$ 8.500,00, regime CLT." yields exactly one  *)
(* opportunity, with role Fagote, salary 8500.00, bond CLT and match type   *)
(* PAGE_PROXIMITY.                                                          *)
C12_EndToEnd ==
    (/\ pc = "done"
     /\ Len(silver_data) = 1
     /\ silver_data[1].full_text = Sentence)
        => /\ Len(opportunities) = 1
           /\ opportunities[1].instrumento = "Fagote"
           /\ opportunities[1].salario_valor = <<850000>>
           /\ opportunities[1].tipo_vinculo = "CLT"
           /\ opportunities[1].match_type = "PAGE_PROXIMITY"

(* C12 witness: the pipeline ran to its end on the sentence and wrote the   *)
(* opportunity tables.                                                      *)
C12_Witness ==
    /\ pc = "done"
    /\ Len(silver_data) = 1
    /\ silver_data[1].full_text = Sentence
    /\ Len(opportunities) = 1
    /\ "opportunities.csv" \in files

----------------------------------------------------------------------------
(* Bare keywords in filler text, checked under SpecKeyword *)

(* The taxonomy entries whose pattern is a bare keyword equal to the word w *)
(* up to letter case.                                                       *)
BareEntries(w) ==
    {e \in 1..Len(INSTRUMENT_TAXONOMY) :
        /\ INSTRUMENT_TAXONOMY[e][2] \notin ComplexPatterns
        /\ INSTRUMENT_TAXONOMY[e][2] = IgnoreCase(w)}

(* The tokens of page row r that are a bare keyword, whole. *)
KeywordTokens(r) ==
    {i \in 1..Len(silver_data[r].full_text) :
        /\ silver_data[r].full_text[i].k = "word"
        /\ BareEntries(silver_data[r].full_text[i].s) # {}}

(* Page row r holds one bare keyword, and filler around it; no other row of *)
(* the table has its (doc_id, page_num).                                    *)
KeywordPage(r) ==
    /\ Cardinality(KeywordTokens(r)) = 1
    /\ \A i \in 1..Len(silver_data[r].full_text) :
          \/ i \in KeywordTokens(r)
          \/ silver_data[r].full_text[i].k = "ws"
          \/ silver_data[r].full_text[i].s \in FillerWords
    /\ \A q \in 1..Len(silver_data) :
          (/\ silver_data[q].doc_id = silver_data[r].doc_id
           /\ silver_data[q].page_num = silver_data[r].page_num) => q = r

(* The page of row r has exactly one role candidate, of the canonical role *)
(* of its keyword and of confidence HIGH.                                  *)
OneRoleCandidate(r) ==
    LET of_page == {n \in 1..Len(candidates) :
                       /\ candidates[n].doc_id = silver_data[r].doc_id
                       /\ <<candidates[n].page_num>> = silver_data[r].page_num}
    IN  /\ Cardinality(of_page) = 1
        /\ \A n \in of_page : \A i \in KeywordTokens(r) :
              /\ \E e \in BareEntries(silver_data[r].full_text[i].s) :
                    candidates[n].canonical_value = INSTRUMENT_TAXONOMY[e][1]
              /\ candidates[n].confidence = "HIGH"
              /\ candidates[n].match_start_idx = TokStart(silver_data[r].full_text, i)

----------------------------------------------------------------------------
(* Artifacts of a run, checked under Spec *)

(* C14 as stated: a run that ends without a fatal error has written the    *)
(* two staging tables and the opportunity table, as parquet and as CSV,    *)
(* whatever the number of candidates.                                      *)
C14_Original ==
    pc = "done" =>
        {"staging_instruments.parquet", "staging_salaries.parquet",
         "opportunities.parquet", "opportunities.csv"} \subseteq files

(* C14 amended: a run that ends without a fatal error has written the role *)
(* staging table and the opportunity table (parquet and CSV) exactly when  *)
(* it found a role candidate, and the salary staging table exactly when it *)
(* found a salary candidate.                                               *)
C14_WrittenWhenFound ==
    pc = "done" =>
        /\ "staging_instruments.parquet" \in files <=> candidates # <<>>
        /\ "staging_salaries.parquet" \in files <=> salaries # <<>>
        /\ "opportunities.parquet" \in files <=> candidates # <<>>
        /\ "opportunities.csv" \in files <=> candidates # <<>>

(* C14 witness: a run that found salaries and no role ended with the       *)
(* salary staging table alone.                                             *)
C14_Witness ==
    /\ pc = "done"
    /\ candidates = <<>>
    /\ salaries # <<>>
    /\ files = {"staging_salaries.parquet"}

----------------------------------------------------------------------------
(* Fatal input errors, checked under Spec *)

(* A required column of the page-text table or the join key of the manifest *)
(* is missing.                                                              *)
ColumnMissing ==
    \/ ~({"doc_id", "full_text", "page_num"} \subseteq inputs.silver_cols)
    \/ "doc_id" \notin inputs.manifest_cols

(* C15: when a required column or the join key is missing the run aborts   *)
(* with a non-zero exit status and a critical diagnostic, no extraction    *)
(* step runs and no staging or opportunity artifact is written.            *)
C15_AbortOnMissingColumn ==
    ColumnMissing =>
        /\ pc \in {"load_data", "failed"}
        /\ candidates = <<>> /\ salaries = <<>> /\ opportunities = <<>>
        /\ files = {}
        /\ pc = "failed" =>
              /\ exit_status # <<>> /\ exit_status # <<0>>
              /\ \E d \in log : d[1] = "CRITICAL"

(* C15 witness: a run aborted on a manifest without doc_id column. *)
C15_Witness ==
    /\ pc = "failed"
    /\ inputs.silver_exists /\ inputs.manifest_exists
    /\ "doc_id" \notin inputs.manifest_cols
    /\ exit_status = <<1>>

----------------------------------------------------------------------------
(* A pattern that does not compile, checked under SpecPatternError *)

(* The pages extract_instruments scans: those with a numeric page number. *)
ScannedPages == {r \in 1..Len(silver_data) : silver_data[r].page_num # <<>>}

(* Every match of a pattern that compiles is represented among the          *)
(* candidates by a candidate of its page and canonical role, no candidate   *)
(* comes from a match of a broken pattern, and the run has not aborted.     *)
SkippedPatternOnly ==
    InstrumentsExtracted =>
        /\ \A r \in ScannedPages : \A e \in 1..Len(INSTRUMENT_TAXONOMY) :
           \A i \in 1..Len(silver_data[r].full_text) :
              (/\ e \notin inputs.broken
               /\ silver_data[r].full_text[i].k = "word"
               /\ IgnoreCase(silver_data[r].full_text[i].s) = INSTRUMENT_TAXONOMY[e][2])
                  => \E n \in 1..Len(candidates) :
                        /\ candidates[n].doc_id = silver_data[r].doc_id
                        /\ <<candidates[n].page_num>> = silver_data[r].page_num
                        /\ candidates[n].canonical_value = INSTRUMENT_TAXONOMY[e][1]
        /\ \A n \in 1..Len(candidates) : \A e \in inputs.broken :
              IgnoreCase(candidates[n].raw_value[1]) # INSTRUMENT_TAXONOMY[e][2]
        /\ pc # "failed" /\ exit_status # <<1>>

(* C16 as stated: when a taxonomy pattern fails to compile on a scanned    *)
(* page, the pattern alone is skipped, the failure is logged, and the run  *)
(* does not abort.                                                         *)
C16_Original ==
    (InstrumentsExtracted /\ inputs.broken # {} /\ ScannedPages # {}) =>
        /\ SkippedPatternOnly
        /\ log # {}

----------------------------------------------------------------------------
(* Claims about collection and text extraction *)

(* C17: after any sequence of collection runs and text-extraction runs, the  *)
(* page-text table parsed_pages.parquet holds at most one row for each       *)
(* (doc_id, page_num).  Two seeds that serve the same bytes give two         *)
(* manifest rows with one doc_id, both selected by process_silver.main, and  *)
(* the pages of the file are appended once for each row.                     *)
C17_Original ==
    \A i, j \in 1..Len(parsed_pages) :
        (/\ parsed_pages[i].doc_id = parsed_pages[j].doc_id
         /\ parsed_pages[i].page_num = parsed_pages[j].page_num) => i = j

(* The download_url of the seeds. *)
SeedUrls == {SEEDS[k] : k \in 1..Len(SEEDS)}

(* The manifest m has at most one downloaded row for each URL. *)
OneDownloadPerUrl(m) ==
    \A url \in SeedUrls : Cardinality(existing(m, url)) <= 1

(* process_seed is called for a URL that has a downloaded row. *)
SeedAlreadyDownloaded ==
    cpc = "process_seed" /\ existing(manifest_df, SEEDS[seed]) # {}

(* C18: collection is idempotent for each URL.  With FORCE_REDOWNLOAD false, *)
(* process_seed for a download_url that has a manifest row with              *)
(* raw_download_ok = True makes no request and returns the manifest          *)
(* unchanged; and after any number of collection runs every download_url has *)
(* at most one manifest row with raw_download_ok = True, in memory and in    *)
(* the file.                                                                 *)
C18_IdempotentPerUrl ==
    /\ [](OneDownloadPerUrl(manifest_df) /\ OneDownloadPerUrl(manifest_parquet))
    /\ [][SeedAlreadyDownloaded =>
            /\ manifest_df' = manifest_df
            /\ requests' = requests
            /\ raw_pdfs' = raw_pdfs
            /\ cpc' # "download_file"]_vars

(* C18 witness: in a second run the first seed, downloaded by the first run, *)
(* has been skipped and the second seed is reached with the manifest as it   *)
(* was loaded.                                                               *)
C18_Witness ==
    /\ runs = 2
    /\ cpc = "process_seed"
    /\ seed = 2
    /\ existing(manifest_df, SEEDS[1]) # {}
    /\ manifest_df = manifest_parquet

(* download_file is running, or has returned and process_seed has not yet    *)
(* used what it returned.                                                    *)
Downloading == cpc = "download_file"

Returned == cpc = "downloaded"

(* C19: download_file always terminates, after at most max_retries           *)
(* requests.  A 429/500/502/503/504 response or a connection error consumes  *)
(* one attempt and is retried (so while the loop runs every request made has *)
(* consumed an attempt), any other response returns at once (the request     *)
(* that returns consumes no attempt and its status is not a retried one);    *)
(* content that is not empty is returned only with status 200; and after     *)
(* max_retries failed attempts the result is no content with the error       *)
(* "Max retries exceeded".                                                   *)
C19_DownloadTerminates ==
    /\ [](Downloading => requests = attempt /\ attempt <= max_retries)
    /\ [](Returned =>
            /\ requests <= max_retries
            /\ downloaded.status \notin RetryStatuses
            /\ (downloaded.content \notin {<<>>, <<"">>} => downloaded.status = 200)
            /\ IF downloaded.error = "Max retries exceeded"
                 THEN /\ attempt = max_retries
                      /\ requests = attempt
                      /\ downloaded.content = <<>>
                 ELSE /\ attempt < max_retries
                      /\ requests = attempt + 1)
    /\ (Downloading ~> Returned)

(* C19 witness: download_file has given up after max_retries requests. *)
C19_Witness ==
    /\ Returned
    /\ downloaded.error = "Max retries exceeded"
    /\ requests = max_retries

(* C19 witness of the other exit: content returned by the last allowed       *)
(* request.                                                                  *)
C19_WitnessContent ==
    /\ Returned
    /\ downloaded.status = 200
    /\ downloaded.content = <<"A">>
    /\ requests = max_retries

(* Every downloaded row of the manifest m has a doc_id. *)
DownloadedHaveDocId(m) ==
    \A i \in 1..Len(m) : m[i].raw_download_ok => m[i].doc_id # <<>>

(* Every downloaded row of the manifest m has a file_path. *)
DownloadedHaveFilePath(m) ==
    \A i \in 1..Len(m) : m[i].raw_download_ok => m[i].file_path # <<>>

(* The part of C20 about doc_id, which holds. *)
C20_DocIdPart == DownloadedHaveDocId(manifest_df) /\ DownloadedHaveDocId(manifest_parquet)

(* C20: after any sequence of process_seed calls, a failed disk write        *)
(* followed by a later download of the same content included, every manifest *)
(* row with raw_download_ok = True has a doc_id and a file_path, so that     *)
(* process_silver.main can build the path of every file it selects.  The row *)
(* of the failed write keeps its sha256 and has no file_path; the later      *)
(* download is taken for a duplicate, finds no file_path to reuse and is     *)
(* marked downloaded all the same.                                           *)
C20_Original ==
    /\ DownloadedHaveDocId(manifest_df)
    /\ DownloadedHaveFilePath(manifest_df)
    /\ DownloadedHaveDocId(manifest_parquet)
    /\ DownloadedHaveFilePath(manifest_parquet)
    /\ silver_outcome # "TypeError"

(* The consequence alone: a run of process_silver.main ends in the TypeError *)
(* of BASE_DIR / None.                                                       *)
C20_SilverBuildsPaths == silver_outcome # "TypeError"

----------------------------------------------------------------------------
(* The guards of extract_salaries, checked under SpecSalaries *)

(* extract_salaries has just returned. *)
SalariesJustExtracted == pc = "save_all"

(* The three conditions the guards of the loop body come down to. *)
GateAccepts(amount, marker, positive, negative) ==
    /\ 70000 <= amount /\ amount <= 4500000
    /\ marker \/ positive
    /\ ~negative

(* C21: in extract_salaries the no-currency-marker guard and the             *)
(* calendar-year guard are subsumed by the final gate and the score check.   *)
(* For every monetary token of the vocabulary and every combination of       *)
(* positive and negative keyword, the loop body keeps the match exactly when *)
(* the amount is in [min_val, max_val], there is a currency marker or a      *)
(* positive keyword, and there is no negative keyword.  On the pages         *)
(* scanned, a token the pattern matches is emitted exactly under these three *)
(* conditions; every emitted score is 2, 3 or 5; and a formatted amount      *)
(* without marker and without positive keyword is rejected.                  *)
C21_GuardsSubsumed ==
    SalariesJustExtracted =>
        /\ \A t \in SalaryTokens : \A positive, negative \in BOOLEAN :
              SalaryAccepted(t.s # "", t.g2, t.g3, positive, negative)
                  <=> GateAccepts(AmountOf(t), t.s = "R$ ", positive, negative)
        /\ \A k \in 1..Len(salaries) : salaries[k].score \in {2, 3, 5}
        /\ \A h \in MoneyTokens :
              LET text == silver_data[h[1]].full_text
                  t == text[h[2]]
                  positive == KeywordNear(text, h[2], positive_keywords)
                  negative == KeywordNear(text, h[2], negative_keywords)
              IN  /\ salary_pattern(t) =>
                        (Emitted(h[1], h[2]) # {}
                            <=> GateAccepts(AmountOf(t), t.s = "R$ ", positive, negative))
                  /\ (Formatted(t) /\ t.s = "" /\ ~positive) => Emitted(h[1], h[2]) = {}

(* C21 witness: an in-range amount with grouping, 3.500, without currency    *)
(* marker and without positive or negative keyword on the page, passed the   *)
(* no-currency-marker guard and the calendar-year guard and was rejected.    *)
C21_Witness ==
    /\ SalariesJustExtracted
    /\ salaries = <<>>
    /\ \E h \in MoneyTokens :
          LET text == silver_data[h[1]].full_text
          IN  /\ text[h[2]] = Money("", <<"3", ".", "5", "0", "0">>, <<>>)
              /\ \A j \in 1..Len(text) : text[j] \notin {Mensal, Taxa}

(* C21 witness of the other side: a bare year-like 2025 next to a positive   *)
(* keyword was emitted, with score 3.                                        *)
C21_WitnessYearEmitted ==
    /\ SalariesJustExtracted
    /\ \E h \in MoneyTokens :
          /\ silver_data[h[1]].full_text[h[2]] = Money("", <<"2", "0", "2", "5">>, <<>>)
          /\ \E k \in Emitted(h[1], h[2]) : salaries[k].score = 3

====
